---- MODULE Spec2Model ----
(***************************************************************************)
(* Model of indi-driver-fetcher.                                           *)
(*   Host A = task_1.py (GitHub, synchronous, requests)                    *)
(*   Host B = task_2.py (Salsa GitLab, asyncio/aiohttp)                    *)
(* Strings whose characters matter (changelog texts, versions) are         *)
(* sequences of one-character strings.                                     *)
(***************************************************************************)
EXTENDS Integers, Sequences, FiniteSets, TLC

VARIABLES
    file_content,   \* argument of extract_version
    version_1,      \* result of task_1.extract_version (None before the call)
    version_2,      \* result of task_2.extract_version (None before the call)
    importable,     \* the modules __import__ succeeds for
    checked_1,      \* outcome of task_1.check_modules (<<>> before, <<outcome>> after)
    checked_2,      \* outcome of task_2.check_modules (<<>> before, <<outcome>> after)
    ignore_text,    \* content of the file given to parse_ignore_file
    ignore_list_1,  \* result of task_1.parse_ignore_file (<<>> before, <<list>> after)
    ignore_list_2,  \* result of task_2.parse_ignore_file (<<>> before, <<list>> after)
    raw_listing,    \* entries of a listing given to the filters of the enumerators
    ignore_set,     \* ignore list given to the filters of the enumerators
    result_1,       \* names get_drivers works on (<<>> before, <<names>> after)
    result_2,       \* names get_indi_packages starts tasks for (<<>> before, <<names>> after)
    repo,           \* Host B server: project id -> what it answers for the project
    tasks,          \* Host B: project id -> state of its get_package_info task
    env_faults,     \* failures the environment may still inject into task requests
    pc_2,           \* Host B: position of main
    ignore_file_2,  \* Host B: the ignore file of the command line (<<>> before main starts)
    ignore_dirs_2,  \* Host B: main's ignore_dirs
    attempt,        \* get_astro_team_id: loop variable
    team_log,       \* get_astro_team_id: requests issued, with their answers
    sleeps,         \* get_astro_team_id: seconds slept, one entry per asyncio.sleep
    group_id,       \* main's group_id (<<>> before the lookup returned)
    page,           \* get_indi_packages: page
    cursor,         \* Host B server: projects already listed on earlier pages
    batch,          \* get_indi_packages: projects of the tasks being gathered
    packages,       \* get_indi_packages: packages
    list_log,       \* project-listing requests issued, with their answers
    stdout_2,       \* Host B: package lines printed
    exit_2,         \* Host B: exit status of the process (-1 while it runs)
    pc_1,           \* Host A: position of main / get_drivers / rate_limited_get
    site,           \* Host A: the call of rate_limited_get in progress
    ignore_file_1,  \* Host A: the ignore file of the command line (<<>> before main starts)
    ignore_dirs_1,  \* Host A: main's ignore_dirs
    listing_answer, \* get_drivers: status and shape of the answer to the listing request
    contents,       \* get_drivers: contents (the listing)
    item,           \* get_drivers: index of the loop's current item in contents
    driver_version, \* get_drivers: version of the current driver
    drivers,        \* get_drivers: drivers
    skipped,        \* names of the drivers whose commit listing raised
    stdout_1,       \* Host A: driver lines printed
    exit_1,         \* Host A: exit status of the process (-1 while it runs)
    now,            \* Host A: time.time() in ticks of 1/TicksPerSec seconds
    sleep_for,      \* rate_limited_get: seconds of the sleeps about to be taken
    last_403,       \* rate_limited_get: the 403 answer of the previous attempt
    waited          \* rate_limited_get: a 403 answer and the time of the next request

evars == <<file_content, version_1, version_2>>
ivars == <<ignore_text, ignore_list_1, ignore_list_2>>
fvars == <<raw_listing, ignore_set, result_1, result_2>>
mvars == <<importable, checked_1, checked_2>>
xvars == <<evars, ivars, fvars, mvars>>
pvars == <<repo, tasks, env_faults>>
bvars == <<pc_2, ignore_file_2, ignore_dirs_2, attempt, team_log, sleeps, group_id, page, cursor, batch,
           packages, list_log, stdout_2, exit_2>>
avars == <<pc_1, site, ignore_file_1, ignore_dirs_1, listing_answer, contents, item, driver_version, drivers, skipped,
           stdout_1, exit_1, now, sleep_for, last_403, waited>>
vars == <<xvars, pvars, bvars, avars>>

None == <<"None">>

\* ---------------------------------------------------------------------------
\* Bounds
\* ---------------------------------------------------------------------------
MaxTextLen == 5

\* ---------------------------------------------------------------------------
\* Text helpers (Python str methods and re.search as the code uses them)
\* ---------------------------------------------------------------------------
NL == "\n"
Chars == {"a", ".", " ", "(", ")", NL}
Unknown == <<"U", "n", "k", "n", "o", "w", "n">>

TextsUpTo(n) == UNION {[1..k -> Chars] : k \in 0..n}

\* index of the first position >= from holding a character of set cs, 0 if none
RECURSIVE FindFrom(_, _, _)
FindFrom(s, cs, from) ==
    IF from > Len(s) THEN 0
    ELSE IF s[from] \in cs THEN from
    ELSE FindFrom(s, cs, from + 1)

\* mutant of splitlines: blank lines are dropped
RECURSIVE splitlines_nonblank(_)
splitlines_nonblank(s) ==
    IF s = <<>> THEN <<>>
    ELSE LET k == FindFrom(s, {NL}, 1)
         IN  IF k = 0 THEN <<s>>
             ELSE IF k = 1 THEN splitlines_nonblank(Tail(s))
             ELSE <<SubSeq(s, 1, k - 1)>> \o splitlines_nonblank(SubSeq(s, k + 1, Len(s)))

\* str.splitlines(): lines without their terminators; no trailing empty line
RECURSIVE splitlines(_)
splitlines(s) ==
    IF s = <<>> THEN <<>>
    ELSE LET k == FindFrom(s, {NL}, 1)
         IN  IF k = 0 THEN <<s>>
             ELSE <<SubSeq(s, 1, k - 1)>> \o splitlines(SubSeq(s, k + 1, Len(s)))

RECURSIVE lstrip(_)
lstrip(s) ==
    IF s # <<>> /\ s[1] \in {" ", NL} THEN lstrip(Tail(s)) ELSE s

RECURSIVE rstrip(_)
rstrip(s) ==
    IF s # <<>> /\ s[Len(s)] \in {" ", NL} THEN rstrip(SubSeq(s, 1, Len(s) - 1)) ELSE s

strip(s) == rstrip(lstrip(s))

\* mutant of version_search: a greedy group, up to the LAST ")" of the line
RECURSIVE version_search_greedy(_, _)
version_search_greedy(line, from) ==
    LET i == FindFrom(line, {"("}, from)
        closers == {k \in (i + 1)..Len(line) : line[k] = ")"}
    IN  IF i = 0 THEN <<>>
        ELSE IF closers # {}
             THEN <<SubSeq(line, i + 1, (CHOOSE k \in closers : \A m \in closers : m <= k) - 1)>>
             ELSE version_search_greedy(line, i + 1)

\* re.search(r"\((.*?)\)", line): leftmost "(" that has a ")" after it, lazy
\* group up to the first such ")".  Result: <<>> for no match, else <<group>>.
RECURSIVE version_search(_, _)
version_search(line, from) ==
    LET i == FindFrom(line, {"("}, from)
    IN  IF i = 0 THEN <<>>
        ELSE LET j == FindFrom(line, {")"}, i + 1)
             IN  IF j # 0 THEN <<SubSeq(line, i + 1, j - 1)>>
                 ELSE version_search(line, i + 1)

\* task_1.extract_version
extract_version_1(content) ==
    IF content = <<>> THEN Unknown
    ELSE LET lines == splitlines(content)
         IN  IF lines # <<>>
             THEN LET first_line == strip(lines[1])
                      version == version_search(first_line, 1)
                  IN  IF version # <<>> THEN version[1] ELSE Unknown
             ELSE Unknown

\* mutant of extract_version_2: the last line is searched, not the first
extract_version_2_last_line(content) ==
    IF content = <<>> THEN Unknown
    ELSE LET lines == splitlines(content)
         IN  IF lines # <<>>
             THEN LET last_line == strip(lines[Len(lines)])
                      version == version_search(last_line, 1)
                  IN  IF version # <<>> THEN version[1] ELSE Unknown
             ELSE Unknown

\* task_2.extract_version
extract_version_2(content) ==
    IF content = <<>> THEN Unknown
    ELSE LET lines == splitlines(content)
         IN  IF lines # <<>>
             THEN LET first_line == strip(lines[1])
                      version == version_search(first_line, 1)
                  IN  IF version # <<>> THEN version[1] ELSE Unknown
             ELSE Unknown

\* ---------------------------------------------------------------------------
\* Specification of the version extractor: any bounded text, both variants
\* ---------------------------------------------------------------------------
EIdle ==
    /\ file_content = <<>>
    /\ version_1 = None
    /\ version_2 = None

IIdle ==
    /\ ignore_text = <<>>
    /\ ignore_list_1 = <<>>
    /\ ignore_list_2 = <<>>

FIdle ==
    /\ raw_listing = <<>>
    /\ ignore_set = <<>>
    /\ result_1 = <<>>
    /\ result_2 = <<>>

MIdle ==
    /\ importable = {}
    /\ checked_1 = <<>>
    /\ checked_2 = <<>>

XIdle == EIdle /\ IIdle /\ FIdle /\ MIdle

PIdle ==
    /\ repo = <<>>
    /\ tasks = <<>>
    /\ env_faults = 0

BIdle ==
    /\ pc_2 = "idle"
    /\ ignore_file_2 = <<>>
    /\ ignore_dirs_2 = <<>>
    /\ attempt = 0
    /\ team_log = <<>>
    /\ sleeps = <<>>
    /\ group_id = <<>>
    /\ page = 1
    /\ cursor = 0
    /\ batch = <<>>
    /\ packages = <<>>
    /\ list_log = <<>>
    /\ stdout_2 = <<>>
    /\ exit_2 = -1

AIdle ==
    /\ pc_1 = "idle"
    /\ site = "none"
    /\ ignore_file_1 = <<>>
    /\ ignore_dirs_1 = <<>>
    /\ listing_answer = <<>>
    /\ contents = <<>>
    /\ item = 0
    /\ driver_version = <<>>
    /\ drivers = <<>>
    /\ skipped = {}
    /\ stdout_1 = <<>>
    /\ exit_1 = -1
    /\ now = 0
    /\ sleep_for = 0
    /\ last_403 = <<>>
    /\ waited = <<>>

XInit ==
    /\ file_content \in TextsUpTo(MaxTextLen)
    /\ version_1 = None
    /\ version_2 = None
    /\ IIdle
    /\ FIdle
    /\ MIdle
    /\ PIdle
    /\ BIdle
    /\ AIdle

ExtractVersion1 ==
    /\ version_1 = None
    /\ version_1' = extract_version_1(file_content)
    /\ UNCHANGED <<file_content, version_2, ivars, fvars, mvars, pvars, bvars, avars>>

ExtractVersion2 ==
    /\ version_2 = None
    /\ version_2' = extract_version_2(file_content)
    /\ UNCHANGED <<file_content, version_1, ivars, fvars, mvars, pvars, bvars, avars>>

XNext == ExtractVersion1 \/ ExtractVersion2

SpecExtract == XInit /\ [][XNext]_vars

\* ---------------------------------------------------------------------------
\* Host B: answers of the Salsa server / aiohttp to one request
\*   kind "resp": a response with a status and a body
\*   kind "err" : aiohttp.ClientError (transport error)
\*   kind "exc" : an exception that is no ClientError (asyncio.TimeoutError of
\*                the session's total timeout, a JSON or text decoding error)
\* ---------------------------------------------------------------------------
Resp(status, body) == [kind |-> "resp", status |-> status, body |-> body]
ClientError == [kind |-> "err", status |-> 0, body |-> <<>>]
OtherException == [kind |-> "exc", status |-> 0, body |-> <<>>]
Failures == {Resp(429, <<>>), Resp(500, <<>>), ClientError, OtherException}

Is200(ans) == ans.kind = "resp" /\ ans.status = 200

\* branch names the server may report as a project's default branch
BranchNames == {"debian/main", "main", "master"}

changelog_paths ==
    <<"debian/changelog", "packaging/debian/changelog",
      "debian.upstream/changelog", "orig/debian/changelog">>

Paths == {changelog_paths[k] : k \in 1..Len(changelog_paths)}

\* changelog texts a repository may hold
T_ok == <<"a", " ", "(", ".", ")", " ", "a">>
T_bad == <<"a", ".">>
T_empty == <<>>
RepoTexts == {T_ok, T_bad, T_empty}

NoFile == None
Cands == BranchNames \X Paths

\* the repositories holding at most n changelog files
RepoFilesUpTo(n) ==
    UNION {{[c \in Cands |-> IF c \in S THEN g[c] ELSE NoFile] : g \in [S -> RepoTexts]} :
            S \in {X \in SUBSET Cands : Cardinality(X) <= n}}

CommitId == <<"0", "1", "2", "3", "4", "5", "6", "7", "8", "9">>
ActivityDate == <<"2", "0", "2", "4", "-", "0", "5", "-", "1", "7", "T", "0", "9", "Z">>

\* what the server may report as default branch: any branch, or no such key
AnyDefault == {Resp(200, <<b>>) : b \in BranchNames} \cup {Resp(200, <<>>)}

\* what the server may answer to a commit listing: one commit, none, no branch
AnyCommits == {Resp(200, <<CommitId>>), Resp(200, <<>>), Resp(404, <<>>)}

Unlimited == -1

\* failures the environment may inject now
FailuresNow == IF env_faults = 0 THEN {} ELSE Failures

Spend(ans) ==
    IF ans \in Failures /\ env_faults > 0 THEN env_faults - 1 ELSE env_faults

DefaultBranchAnswers(r) == r.defaults \cup FailuresNow

CommitAnswers(r, branch) == r.commits[branch] \cup FailuresNow

ChangelogAnswers(r, branch, path) ==
    {IF r.files[<<branch, path>>] = NoFile THEN Resp(404, <<>>)
     ELSE Resp(200, r.files[<<branch, path>>])} \cup FailuresNow

\* ---------------------------------------------------------------------------
\* Host B: get_package_info, one task per project; each request is one step
\* ---------------------------------------------------------------------------
NewTask(project) ==
    [project |-> project,
     pc |-> "default_branch",
     branches |-> <<>>,
     bi |-> 1,
     pj |-> 1,
     latest_commit |-> <<>>,
     changelog |-> <<>>,
     found_branch |-> <<>>,
     n_default |-> 0,
     commit_log |-> <<>>,
     cl_log |-> <<>>,
     outcome |-> "running",
     ret |-> <<>>]

\* mutant of get_default_branch: falls back to "main"
get_default_branch_fallback_main(ans) ==
    IF Is200(ans)
    THEN IF ans.body # <<>> THEN ans.body[1] ELSE "main"
    ELSE "main"

\* get_default_branch: the reported branch, "master" when the key is missing,
\* the status is not 200, or a ClientError was raised
get_default_branch(ans) ==
    IF Is200(ans)
    THEN IF ans.body # <<>> THEN ans.body[1] ELSE "master"
    ELSE "master"

\* str.split("T")[0]
RECURSIVE split_T_first(_)
split_T_first(s) ==
    IF s = <<>> \/ s[1] = "T" THEN <<>> ELSE <<s[1]>> \o split_T_first(Tail(s))

\* str.replace("-", "")
RECURSIVE remove_dashes(_)
remove_dashes(s) ==
    IF s = <<>> THEN <<>>
    ELSE (IF s[1] = "-" THEN <<>> ELSE <<s[1]>>) \o remove_dashes(Tail(s))

Prefix(s, n) == SubSeq(s, 1, IF Len(s) < n THEN Len(s) ELSE n)

last_activity(project) ==
    IF project.last_activity_at = <<>> THEN Unknown ELSE project.last_activity_at[1]

\* mutant of git_hash_of: formats the hash whenever a commit was found
git_hash_of_any_date(project, latest_commit) ==
    IF latest_commit # <<>>
    THEN <<"g", "i", "t">> \o remove_dashes(split_T_first(last_activity(project)))
             \o <<".">> \o Prefix(latest_commit[1], 8)
    ELSE Unknown

git_hash_of(project, latest_commit) ==
    IF latest_commit # <<>> /\ last_activity(project) # Unknown
    THEN <<"g", "i", "t">> \o remove_dashes(split_T_first(last_activity(project)))
             \o <<".">> \o Prefix(latest_commit[1], 8)
    ELSE Unknown

\* mutant of package_info: the changelog text itself is reported as version
package_info_raw_text(project, latest_commit, changelog, found_branch) ==
    [name |-> project.name,
     debian_version |-> IF changelog # <<>> /\ changelog[1] # <<>>
                        THEN changelog[1] ELSE Unknown,
     git_hash |-> git_hash_of(project, latest_commit),
     last_activity |-> last_activity(project),
     changelog_found |-> changelog # <<>>,
     changelog_branch |-> IF found_branch # <<>> THEN found_branch[1] ELSE "Not found"]

\* the dictionary get_package_info returns (task_2.py:280-302)
package_info(project, latest_commit, changelog, found_branch) ==
    [name |-> project.name,
     debian_version |-> IF changelog # <<>> /\ changelog[1] # <<>>
                        THEN extract_version_2(changelog[1]) ELSE Unknown,
     git_hash |-> git_hash_of(project, latest_commit),
     last_activity |-> last_activity(project),
     changelog_found |-> changelog # <<>>,
     changelog_branch |-> IF found_branch # <<>> THEN found_branch[1] ELSE "Not found"]

create_error_package_info(project) ==
    [name |-> project.name,
     debian_version |-> Unknown,
     git_hash |-> Unknown,
     last_activity |-> last_activity(project),
     changelog_found |-> FALSE,
     changelog_branch |-> "Not found"]

\* the handlers of get_package_info (task_2.py:304-311) for an exception that
\* reaches them: a ClientError gives the error record, anything else None.
\* Every request sits in a try block of its own that catches ClientError, so
\* only kind "exc" ever reaches these handlers.
Raised(T, kind) ==
    IF kind = "err"
    THEN [T EXCEPT !.pc = "done", !.outcome = "error_info",
                   !.ret = <<create_error_package_info(T.project)>>]
    ELSE [T EXCEPT !.pc = "done", !.outcome = "none", !.ret = <<>>]

\* mutant of NextCandidate: paths in the outer loop, branches in the inner one
NextCandidate_PathsOuter(bi, pj) ==
    IF bi < 3 THEN <<bi + 1, pj>> ELSE <<1, pj + 1>>

\* loop indices of the candidate after (branches[bi], paths[pj]) in
\* "for branch in branches: for path in paths"
NextCandidate(bi, pj) ==
    IF pj < Len(changelog_paths) THEN <<bi, pj + 1>> ELSE <<bi + 1, 1>>

HasCandidate(bi, pj) == bi <= 3 /\ pj <= Len(changelog_paths)

T_GetDefaultBranch(t) ==
    /\ tasks[t].pc = "default_branch"
    /\ \E ans \in DefaultBranchAnswers(repo[t]) :
          /\ tasks' = [tasks EXCEPT ![t] =
                IF ans.kind = "exc" THEN Raised([@ EXCEPT !.n_default = 1], ans.kind)
                ELSE [@ EXCEPT !.pc = "commits",
                               !.n_default = 1,
                               !.branches = <<"debian/main", get_default_branch(ans), "master">>,
                               !.bi = 1]]
          /\ env_faults' = Spend(ans)
    /\ UNCHANGED repo

T_GetCommits(t) ==
    /\ tasks[t].pc = "commits"
    /\ \E ans \in CommitAnswers(repo[t], tasks[t].branches[tasks[t].bi]) :
          LET T == tasks[t]
              yielded == Is200(ans) /\ ans.body # <<>>
              logged == [T EXCEPT !.commit_log =
                            Append(@, [branch |-> T.branches[T.bi], yielded |-> yielded])]
          IN  /\ tasks' = [tasks EXCEPT ![t] =
                    IF ans.kind = "exc" THEN Raised(logged, ans.kind)
                    ELSE IF yielded
                    THEN [logged EXCEPT !.latest_commit = <<ans.body[1]>>,
                                        !.pc = "changelog", !.bi = 1, !.pj = 1]
                    ELSE IF T.bi < 3
                    THEN [logged EXCEPT !.bi = T.bi + 1]
                    ELSE [logged EXCEPT !.pc = "changelog", !.bi = 1, !.pj = 1]]
              /\ env_faults' = Spend(ans)
    /\ UNCHANGED repo

\* one request of get_changelog; on its return get_package_info runs to its
\* own return without another await
T_GetChangelog(t) ==
    /\ tasks[t].pc = "changelog"
    /\ \E ans \in ChangelogAnswers(repo[t], tasks[t].branches[tasks[t].bi],
                                    changelog_paths[tasks[t].pj]) :
          LET T == tasks[t]
              branch == T.branches[T.bi]
              path == changelog_paths[T.pj]
              next == NextCandidate(T.bi, T.pj)
              logged == [T EXCEPT !.cl_log =
                            Append(@, [branch |-> branch, path |-> path,
                                       ok |-> Is200(ans), text |-> ans.body])]
              Return(changelog, found_branch) ==
                  [logged EXCEPT !.changelog = changelog,
                                 !.found_branch = found_branch,
                                 !.pc = "done",
                                 !.outcome = "info",
                                 !.ret = <<package_info(T.project, T.latest_commit,
                                                        changelog, found_branch)>>]
          IN  /\ tasks' = [tasks EXCEPT ![t] =
                    IF ans.kind = "exc" THEN Raised(logged, ans.kind)
                    ELSE IF Is200(ans) THEN Return(<<ans.body>>, <<branch>>)
                    ELSE IF HasCandidate(next[1], next[2])
                    THEN [logged EXCEPT !.bi = next[1], !.pj = next[2]]
                    ELSE Return(<<>>, <<>>)]
              /\ env_faults' = Spend(ans)
    /\ UNCHANGED repo

\* ---------------------------------------------------------------------------
\* Specification of one project's resolution on Host B: any repository with a
\* bounded number of changelog files, any answers to the requests
\* ---------------------------------------------------------------------------
MaxFiles == 2

IndiA == <<"i", "n", "d", "i", "-", "a">>

PkgProjects ==
    {[id |-> 1, name |-> IndiA, last_activity_at |-> d] : d \in {<<>>, <<ActivityDate>>}}

PkgRepos ==
    {[files |-> f, defaults |-> AnyDefault, commits |-> [b \in BranchNames |-> AnyCommits]] :
        f \in RepoFilesUpTo(MaxFiles)}

PInit ==
    /\ XIdle
    /\ BIdle
    /\ AIdle
    /\ repo \in [{1} -> PkgRepos]
    /\ tasks \in [{1} -> {NewTask(p) : p \in PkgProjects}]
    /\ env_faults = Unlimited

GetDefaultBranch ==
    \E t \in DOMAIN tasks : T_GetDefaultBranch(t) /\ UNCHANGED <<xvars, bvars, avars>>

GetCommits ==
    \E t \in DOMAIN tasks : T_GetCommits(t) /\ UNCHANGED <<xvars, bvars, avars>>

GetChangelog ==
    \E t \in DOMAIN tasks : T_GetChangelog(t) /\ UNCHANGED <<xvars, bvars, avars>>

PNext == GetDefaultBranch \/ GetCommits \/ GetChangelog

SpecPkg == PInit /\ [][PNext]_vars

\* ---------------------------------------------------------------------------
\* Names: str.startswith, the "in" substring test, the order sort() uses
\* ---------------------------------------------------------------------------
\* the names of a list of records
Names(list) == [k \in 1..Len(list) |-> list[k].name]

StartsWith(s, prefix) ==
    Len(prefix) <= Len(s) /\ SubSeq(s, 1, Len(prefix)) = prefix

\* Python "sub in s"; the empty string is a substring of every string
IsSubstr(sub, s) ==
    \E k \in 0..(Len(s) - Len(sub)) : SubSeq(s, k + 1, k + Len(sub)) = sub

\* the characters of the project names in code point order
CodePointOrder == <<"-", "a", "b", "d", "h", "i", "l", "n", "o", "p", "r", "s", "t", "u", "x">>

ord(c) == CHOOSE k \in 1..Len(CodePointOrder) : CodePointOrder[k] = c

\* Python str "<"
RECURSIVE str_less(_, _)
str_less(a, b) ==
    IF b = <<>> THEN FALSE
    ELSE IF a = <<>> THEN TRUE
    ELSE IF a[1] = b[1] THEN str_less(Tail(a), Tail(b))
    ELSE ord(a[1]) < ord(b[1])

\* mutant of insert_by_name: descending order
RECURSIVE insert_by_name_descending(_, _)
insert_by_name_descending(sorted, x) ==
    IF sorted = <<>> THEN <<x>>
    ELSE IF str_less(sorted[1].name, x.name) THEN <<x>> \o sorted
    ELSE <<sorted[1]>> \o insert_by_name_descending(Tail(sorted), x)

\* list.sort(key=name): stable, ascending
RECURSIVE insert_by_name(_, _)
insert_by_name(sorted, x) ==
    IF sorted = <<>> THEN <<x>>
    ELSE IF str_less(x.name, sorted[1].name) THEN <<x>> \o sorted
    ELSE <<sorted[1]>> \o insert_by_name(Tail(sorted), x)

RECURSIVE sort_by_name(_)
sort_by_name(list) ==
    IF list = <<>> THEN <<>>
    ELSE insert_by_name(sort_by_name(SubSeq(list, 1, Len(list) - 1)), list[Len(list)])

\* ---------------------------------------------------------------------------
\* Ignore-list file
\* ---------------------------------------------------------------------------
\* line.split('#', 1)[0]
RECURSIVE before_hash(_)
before_hash(s) ==
    IF s = <<>> \/ s[1] = "#" THEN <<>> ELSE <<s[1]>> \o before_hash(Tail(s))

Separators == {",", " ", NL}

RECURSIVE skip_separators(_)
skip_separators(s) ==
    IF s # <<>> /\ s[1] \in Separators THEN skip_separators(Tail(s)) ELSE s

\* re.split(r'[,\s]+', line): a separator run at either end gives an empty token
RECURSIVE re_split(_)
re_split(s) ==
    LET k == FindFrom(s, Separators, 1)
    IN  IF k = 0 THEN <<s>>
        ELSE <<SubSeq(s, 1, k - 1)>> \o re_split(skip_separators(SubSeq(s, k, Len(s))))

RECURSIVE ignore_tokens(_)
ignore_tokens(lines) ==
    IF lines = <<>> THEN <<>>
    ELSE LET line == strip(before_hash(lines[1]))
         IN  (IF line # <<>> THEN re_split(line) ELSE <<>>) \o ignore_tokens(Tail(lines))

\* task_2.parse_ignore_file on a readable file
parse_ignore_file_2(content) == ignore_tokens(splitlines(content))

\* ---------------------------------------------------------------------------
\* Host B: the projects of the group on the server, in listing order
\* ---------------------------------------------------------------------------
Astro == <<"a", "s", "t", "r", "o">>
IndiAsu == <<"i", "n", "d", "i", "-", "a", "s", "u">>
IndiAhpXc == <<"i", "n", "d", "i", "-", "a", "h", "p", "-", "x", "c">>
LibB == <<"l", "i", "b", "b">>

default_ignore_dirs_2 == <<IndiAsu, IndiAhpXc>>

ServerProjects ==
    <<[id |-> 4, name |-> Astro, last_activity_at |-> <<ActivityDate>>],
      [id |-> 1, name |-> IndiA, last_activity_at |-> <<ActivityDate>>],
      [id |-> 2, name |-> IndiAsu, last_activity_at |-> <<ActivityDate>>],
      [id |-> 3, name |-> LibB, last_activity_at |-> <<>>]>>

NoFiles == [c \in Cands |-> NoFile]

CommitsOn(branch) ==
    [b \in BranchNames |-> IF b = branch THEN {Resp(200, <<CommitId>>)} ELSE {Resp(404, <<>>)}]

\* indi-a: default branch main, changelog main:debian/changelog
\* indi-asu: default branch debian/main, changelog without a version
\* libb: default branch master, no changelog anywhere
ServerRepos ==
    [i \in 1..4 |->
        IF i = 1
        THEN [files |-> [NoFiles EXCEPT ![<<"main", "debian/changelog">>] = T_ok],
              defaults |-> {Resp(200, <<"main">>)},
              commits |-> CommitsOn("main")]
        ELSE IF i = 3
        THEN [files |-> NoFiles,
              defaults |-> {Resp(200, <<"master">>)},
              commits |-> CommitsOn("master")]
        ELSE [files |-> [NoFiles EXCEPT ![<<"debian/main", "debian/changelog">>] = T_bad],
              defaults |-> {Resp(200, <<"debian/main">>)},
              commits |-> CommitsOn("debian/main")]]

GroupId == 7

\* ---------------------------------------------------------------------------
\* Host B: main, get_astro_team_id, get_indi_packages
\* ---------------------------------------------------------------------------
retries == 5
backoff_factor == 1

\* the command line: no ignore file, an unreadable one, or a readable one
IgnoreFileContents == {<<>>, IndiA \o <<NL>>}

IgnoreArgs ==
    {[given |-> FALSE, readable |-> FALSE, content |-> <<>>],
     [given |-> TRUE, readable |-> FALSE, content |-> <<>>]}
    \cup {[given |-> TRUE, readable |-> TRUE, content |-> c] : c \in IgnoreFileContents}

\* sys.exit(status), or the interpreter ending after an uncaught exception
Exit(status, how) ==
    /\ pc_2' = how
    /\ exit_2' = status

\* main up to the first request (task_2.py:92-107)
Main2Start ==
    /\ pc_2 = "start"
    /\ \E arg \in IgnoreArgs :
          /\ ignore_file_2' = <<arg>>
          /\ IF arg.given /\ ~arg.readable
             THEN /\ Exit(1, "exited")
                  /\ UNCHANGED ignore_dirs_2
             ELSE /\ ignore_dirs_2' = IF arg.given THEN parse_ignore_file_2(arg.content)
                                      ELSE default_ignore_dirs_2
                  /\ pc_2' = "team"
                  /\ UNCHANGED exit_2
    /\ UNCHANGED <<attempt, team_log, sleeps, group_id, page, cursor, batch, packages,
                   list_log, stdout_2>>
    /\ UNCHANGED <<xvars, pvars, avars>>

TeamAnswers ==
    {Resp(200, <<GroupId>>), Resp(200, <<>>), Resp(429, <<>>), Resp(404, <<>>),
     Resp(500, <<>>), ClientError, OtherException}

\* mutant of wait_time: linear backoff
wait_time_linear(k) == backoff_factor * (k + 1)

\* wait_time = backoff_factor * (2 ** attempt)
wait_time(k) == backoff_factor * (2 ^ k)

\* "for attempt in range(retries)": is k a value of the loop variable
MoreAttempts(k) == k < retries

\* one request of get_astro_team_id and, when the function returns, main's
\* reaction to the result (task_2.py:109-115)
TeamRequest ==
    /\ pc_2 = "team"
    /\ \E ans \in TeamAnswers :
          /\ team_log' = Append(team_log, [attempt |-> attempt, kind |-> ans.kind,
                                            status |-> ans.status])
          /\ IF Is200(ans) /\ ans.body # <<>>
             THEN /\ group_id' = <<ans.body[1]>>
                  /\ pc_2' = "list"
                  /\ UNCHANGED exit_2
             ELSE IF ans.kind = "exc" \/ Is200(ans)
             THEN \* not a ClientError: nothing catches it
                  /\ Exit(1, "crashed")
                  /\ UNCHANGED group_id
             ELSE IF ans.kind = "resp" /\ ans.status = 429
             THEN /\ pc_2' = "team_sleep"
                  /\ UNCHANGED <<group_id, exit_2>>
             ELSE \* return None; main exits
                  /\ Exit(1, "exited")
                  /\ UNCHANGED group_id
    /\ UNCHANGED <<ignore_file_2, ignore_dirs_2, attempt, sleeps, page, cursor, batch, packages, list_log, stdout_2>>
    /\ UNCHANGED <<xvars, pvars, avars>>

\* asyncio.sleep(wait_time) after a 429, then the next iteration or the
\* return of None after the loop
TeamSleep ==
    /\ pc_2 = "team_sleep"
    /\ sleeps' = Append(sleeps, wait_time(attempt))
    /\ attempt' = attempt + 1
    /\ IF MoreAttempts(attempt + 1)
       THEN pc_2' = "team" /\ UNCHANGED exit_2
       ELSE Exit(1, "exited")
    /\ UNCHANGED <<ignore_file_2, ignore_dirs_2, team_log, group_id, page, cursor, batch, packages, list_log, stdout_2>>
    /\ UNCHANGED <<xvars, pvars, avars>>

MaxPageLen == 2

\* the pages the server may answer with: the next projects of the listing
HonestPages ==
    LET left == Len(ServerProjects) - cursor
        most == IF left < MaxPageLen THEN left ELSE MaxPageLen
    IN  {SubSeq(ServerProjects, cursor + 1, cursor + n) :
            n \in (IF left = 0 THEN {0} ELSE 1..most)}

ListAnswers ==
    {Resp(200, pg) : pg \in HonestPages}
    \cup {Resp(429, <<>>), Resp(500, <<>>), ClientError, OtherException}

\* mutant of Selected: only the first entry of the ignore list is looked at
Selected_first_ignored_only(project, ignore_dirs) ==
    /\ StartsWith(project.name, <<"i", "n", "d", "i", "-">>)
          \/ StartsWith(project.name, <<"l", "i", "b">>)
    /\ ~\E k \in 1..Len(ignore_dirs) : k = 1 /\ IsSubstr(ignore_dirs[k], project.name)

\* the filter of get_indi_packages (task_2.py:210-212)
Selected(project, ignore_dirs) ==
    /\ StartsWith(project.name, <<"i", "n", "d", "i", "-">>)
          \/ StartsWith(project.name, <<"l", "i", "b">>)
    /\ ~\E k \in 1..Len(ignore_dirs) : IsSubstr(ignore_dirs[k], project.name)

RECURSIVE SelectProjects(_, _)
SelectProjects(projects, ignore_dirs) ==
    IF projects = <<>> THEN <<>>
    ELSE (IF Selected(projects[1], ignore_dirs) THEN <<projects[1]>> ELSE <<>>)
            \o SelectProjects(Tail(projects), ignore_dirs)

PrintedLines(pkgs) ==
    [k \in 1..Len(pkgs) |-> [name |-> pkgs[k].name, version |-> pkgs[k].debian_version]]

\* mutant of ListRequest: a failed page keeps the records of the earlier pages
ListRequest_prints_partial ==
    /\ pc_2 = "list"
    /\ \E ans \in ListAnswers :
          /\ list_log' = Append(list_log, [page |-> page, kind |-> ans.kind, status |-> ans.status])
          /\ IF ~Is200(ans)
             THEN \* the records collected so far are printed
                  /\ Exit(1, "exited")
                  /\ stdout_2' = PrintedLines(sort_by_name(packages))
                  /\ UNCHANGED <<page, cursor, batch, tasks>>
             ELSE IF ans.body = <<>>
             THEN /\ stdout_2' = PrintedLines(sort_by_name(packages))
                  /\ Exit(0, "done")
                  /\ UNCHANGED <<page, cursor, batch, tasks>>
             ELSE LET chosen == SelectProjects(ans.body, ignore_dirs_2)
                  IN  /\ cursor' = cursor + Len(ans.body)
                      /\ tasks' = [i \in DOMAIN tasks \cup {chosen[k].id : k \in 1..Len(chosen)} |->
                                      IF i \in DOMAIN tasks THEN tasks[i]
                                      ELSE NewTask(CHOOSE q \in {chosen[k] : k \in 1..Len(chosen)} : q.id = i)]
                      /\ IF chosen # <<>>
                         THEN /\ batch' = [k \in 1..Len(chosen) |-> chosen[k].id]
                              /\ pc_2' = "gather"
                              /\ UNCHANGED page
                         ELSE /\ page' = page + 1
                              /\ UNCHANGED <<batch, pc_2>>
                      /\ UNCHANGED <<stdout_2, exit_2>>
    /\ UNCHANGED <<ignore_file_2, ignore_dirs_2, attempt, team_log, sleeps, group_id, packages>>
    /\ UNCHANGED <<xvars, repo, env_faults, avars>>

\* one iteration of the page loop up to the gather, or to the end of main
\* when the loop ends (task_2.py:192-228, 118-125)
ListRequest ==
    /\ pc_2 = "list"
    /\ \E ans \in ListAnswers :
          /\ list_log' = Append(list_log, [page |-> page, kind |-> ans.kind, status |-> ans.status])
          /\ IF ~Is200(ans)
             THEN \* get_indi_packages returns None
                  /\ Exit(1, "exited")
                  /\ UNCHANGED <<page, cursor, batch, stdout_2, tasks>>
             ELSE IF ans.body = <<>>
             THEN /\ stdout_2' = PrintedLines(sort_by_name(packages))
                  /\ Exit(0, "done")
                  /\ UNCHANGED <<page, cursor, batch, tasks>>
             ELSE LET chosen == SelectProjects(ans.body, ignore_dirs_2)
                  IN  /\ cursor' = cursor + Len(ans.body)
                      /\ tasks' = [i \in DOMAIN tasks \cup {chosen[k].id : k \in 1..Len(chosen)} |->
                                      IF i \in DOMAIN tasks THEN tasks[i]
                                      ELSE NewTask(CHOOSE q \in {chosen[k] : k \in 1..Len(chosen)} : q.id = i)]
                      /\ IF chosen # <<>>
                         THEN /\ batch' = [k \in 1..Len(chosen) |-> chosen[k].id]
                              /\ pc_2' = "gather"
                              /\ UNCHANGED page
                         ELSE /\ page' = page + 1
                              /\ UNCHANGED <<batch, pc_2>>
                      /\ UNCHANGED <<stdout_2, exit_2>>
    /\ UNCHANGED <<ignore_file_2, ignore_dirs_2, attempt, team_log, sleeps, group_id, packages>>
    /\ UNCHANGED <<xvars, repo, env_faults, avars>>

\* [pkg for pkg in package_infos if pkg], in the order of the tasks
RECURSIVE Collected(_)
Collected(ids) ==
    IF ids = <<>> THEN <<>> ELSE tasks[ids[1]].ret \o Collected(Tail(ids))

\* mutant of GatherDone: the gather returns with the first task that has returned
GatherDone_first_completed ==
    /\ pc_2 = "gather"
    /\ \E k \in 1..Len(batch) : tasks[batch[k]].pc = "done"
    /\ packages' = packages \o Collected(batch)
    /\ batch' = <<>>
    /\ page' = page + 1
    /\ pc_2' = "list"
    /\ UNCHANGED <<ignore_file_2, ignore_dirs_2, attempt, team_log, sleeps, group_id, cursor, list_log, stdout_2, exit_2>>
    /\ UNCHANGED <<xvars, pvars, avars>>

\* asyncio.gather returns when every task of the batch has returned
GatherDone ==
    /\ pc_2 = "gather"
    /\ \A k \in 1..Len(batch) : tasks[batch[k]].pc = "done"
    /\ packages' = packages \o Collected(batch)
    /\ batch' = <<>>
    /\ page' = page + 1
    /\ pc_2' = "list"
    /\ UNCHANGED <<ignore_file_2, ignore_dirs_2, attempt, team_log, sleeps, group_id, cursor, list_log, stdout_2, exit_2>>
    /\ UNCHANGED <<xvars, pvars, avars>>

MaxFaults == 1

BInit ==
    /\ XIdle
    /\ AIdle
    /\ repo = ServerRepos
    /\ tasks = <<>>
    /\ env_faults = MaxFaults
    /\ pc_2 = "start"
    /\ ignore_file_2 = <<>>
    /\ ignore_dirs_2 = <<>>
    /\ attempt = 0
    /\ team_log = <<>>
    /\ sleeps = <<>>
    /\ group_id = <<>>
    /\ page = 1
    /\ cursor = 0
    /\ batch = <<>>
    /\ packages = <<>>
    /\ list_log = <<>>
    /\ stdout_2 = <<>>
    /\ exit_2 = -1

BNext ==
    \/ Main2Start
    \/ TeamRequest
    \/ TeamSleep
    \/ ListRequest
    \/ GatherDone
    \/ GetDefaultBranch
    \/ GetCommits
    \/ GetChangelog

SpecB == BInit /\ [][BNext]_vars

\* ---------------------------------------------------------------------------
\* Specification of one project's resolution on Host B against a repository
\* whose answer to the default-branch lookup is known, with a counted number
\* of failed requests: MaxFailed covers every request one task can issue
\* ---------------------------------------------------------------------------
MaxFailed == 16

InfoFiles ==
    {NoFiles,
     [NoFiles EXCEPT ![<<"main", "debian/changelog">>] = T_ok],
     [NoFiles EXCEPT ![<<"master", "orig/debian/changelog">>] = T_bad]}

InfoRepos ==
    {[files |-> f, defaults |-> {d}, commits |-> [b \in BranchNames |-> AnyCommits]] :
        f \in InfoFiles, d \in AnyDefault}

InfoInit ==
    /\ XIdle
    /\ BIdle
    /\ AIdle
    /\ repo \in [{1} -> InfoRepos]
    /\ tasks \in [{1} -> {NewTask(p) : p \in PkgProjects}]
    /\ env_faults = MaxFailed

SpecInfo == InfoInit /\ [][PNext]_vars

\* ---------------------------------------------------------------------------
\* Host A: answers of the GitHub server / requests to one request
\*   kind "resp"   : a response; shape is what its body parses to ("list",
\*                   "dict", "text", or "bad" for a body that is no JSON)
\*   kind "timeout": requests.exceptions.Timeout
\*   kind "error"  : another requests.exceptions.RequestException
\* ---------------------------------------------------------------------------
Resp1(status, shape, body, reset) ==
    [kind |-> "resp", status |-> status, shape |-> shape, body |-> body, reset |-> reset]
\* a response without a rate-limit header
Answer1(status, shape, body) == Resp1(status, shape, body, 0)
Timeout1 == [kind |-> "timeout", status |-> 0, shape |-> "text", body |-> <<>>, reset |-> 0]
RequestException1 == [kind |-> "error", status |-> 0, shape |-> "text", body |-> <<>>, reset |-> 0]

TicksPerSec == 2
Epoch0 == 20

\* int(time.time())
int_time(t) == t \div TicksPerSec

\* X-RateLimit-Reset of a 403 answer: absent (read as 0), or an epoch second
\* shortly before, at, or after the current second
ResetOffsets == {-1, 0, 1, 5}
ResetHeaders == {0} \cup {int_time(now) + o : o \in ResetOffsets}

\* answers after which rate_limited_get tries again
Retryable1 ==
    IF env_faults = 0 THEN {}
    ELSE {Timeout1, RequestException1} \cup {Resp1(403, "text", <<>>, h) : h \in ResetHeaders}

RATE_LIMIT == 30
RATE_LIMIT_RESET == 60 \div RATE_LIMIT

\* mutant of reset_sleep: the reset header is not looked at
reset_sleep_fixed(reset, t) == RATE_LIMIT_RESET

\* seconds slept for a 403 answer (task_1.py:163-168)
reset_sleep(reset, t) ==
    LET reset_time == reset - int_time(t)
    IN  IF reset_time > 0 THEN reset_time ELSE RATE_LIMIT_RESET

IsRetry(ans) == ans.kind # "resp" \/ ans.status = 403

\* response.raise_for_status() raises
IsHttpError(ans) == ans.status >= 400

\* mutant of Attempt: no time.sleep(1) after a timeout or a transport error
Attempt_no_pause(ans) ==
    /\ waited' = IF last_403 # <<>>
                 THEN <<[at |-> last_403[1].at, reset |-> last_403[1].reset, next |-> now]>>
                 ELSE <<>>
    /\ last_403' = IF ans.kind = "resp" /\ ans.status = 403
                   THEN <<[at |-> now, reset |-> ans.reset]>> ELSE <<>>
    /\ IF IsRetry(ans)
       THEN /\ pc_1' = "sleep"
            /\ sleep_for' = IF ans.kind = "resp" THEN reset_sleep(ans.reset, now) + 1 ELSE 0
            /\ env_faults' = env_faults - 1
       ELSE UNCHANGED <<sleep_for, env_faults>>
    /\ UNCHANGED now

\* the part of one pass through the loop of rate_limited_get that every call
\* shares: the request is issued now; a 403 answer or an exception leads to
\* the sleeps (task_1.py:166-173), any other answer is returned
Attempt(ans) ==
    /\ waited' = IF last_403 # <<>>
                 THEN <<[at |-> last_403[1].at, reset |-> last_403[1].reset, next |-> now]>>
                 ELSE <<>>
    /\ last_403' = IF ans.kind = "resp" /\ ans.status = 403
                   THEN <<[at |-> now, reset |-> ans.reset]>> ELSE <<>>
    /\ IF IsRetry(ans)
       THEN /\ pc_1' = "sleep"
            /\ sleep_for' = IF ans.kind = "resp" THEN reset_sleep(ans.reset, now) + 1 ELSE 1
            /\ env_faults' = env_faults - 1
       ELSE UNCHANGED <<sleep_for, env_faults>>
    /\ UNCHANGED now

\* time.sleep
Sleep1 ==
    /\ pc_1 = "sleep"
    /\ now' = now + sleep_for * TicksPerSec
    /\ sleep_for' = 0
    /\ pc_1' = "request"
    /\ UNCHANGED <<site, ignore_file_1, ignore_dirs_1, listing_answer, contents, item, driver_version, drivers, skipped,
                   stdout_1, exit_1, last_403, waited>>
    /\ UNCHANGED <<xvars, pvars, bvars>>

\* ---------------------------------------------------------------------------
\* Host A: main, get_drivers, get_changelog
\* ---------------------------------------------------------------------------
IndiX == <<"i", "n", "d", "i", "-", "x">>
IndiY == <<"i", "n", "d", "i", "-", "y">>
Debian == <<"d", "e", "b", "i", "a", "n">>
Readme == <<"r", "e", "a", "d", "m", "e">>

default_ignore_dirs_1 ==
    <<<<".", "c", "i", "r", "c", "l", "e", "c", "i">>, <<".", "g", "i", "t", "h", "u", "b">>, <<"c", "m", "a", "k", "e", "_", "m", "o", "d", "u", "l", "e", "s">>, Debian, <<"e", "x", "a", "m", "p", "l", "e", "s">>, <<"s", "c", "r", "i", "p", "t", "s">>, <<"s", "p", "e", "c">>, <<"o", "b", "s", "o", "l", "e", "t", "e">>>>

ContentsListing ==
    <<[name |-> IndiX, type |-> "dir"],
      [name |-> Debian, type |-> "dir"],
      [name |-> Readme, type |-> "file"],
      [name |-> IndiY, type |-> "dir"]>>

\* the same entries in another order, the later name first
ContentsListing2 ==
    <<[name |-> IndiY, type |-> "dir"],
      [name |-> Readme, type |-> "file"],
      [name |-> IndiX, type |-> "dir"],
      [name |-> Debian, type |-> "dir"]>>

NonEmpty(token) == token # <<>>

\* task_1.parse_ignore_file on a readable file
parse_ignore_file_1(content) == SelectSeq(ignore_tokens(splitlines(content)), NonEmpty)

IgnoreFileContents1 == {<<>>, IndiX \o <<",">> \o <<NL>>}

IgnoreArgs1 ==
    {[given |-> FALSE, readable |-> FALSE, content |-> <<>>],
     [given |-> TRUE, readable |-> FALSE, content |-> <<>>]}
    \cup {[given |-> TRUE, readable |-> TRUE, content |-> c] : c \in IgnoreFileContents1}

\* mutant of main_ignore_dirs_1: an empty list counts as no list
main_ignore_dirs_1_truthy(arg) ==
    IF arg.given /\ arg.readable /\ parse_ignore_file_1(arg.content) # <<>>
    THEN parse_ignore_file_1(arg.content)
    ELSE default_ignore_dirs_1

\* main's ignore_dirs: parse_ignore_file returns None for a file it cannot
\* read, and a list, possibly empty, for one it can (task_1.py:119-126)
main_ignore_dirs_1(arg) ==
    IF arg.given /\ arg.readable
    THEN parse_ignore_file_1(arg.content)
    ELSE default_ignore_dirs_1

\* main up to the call of get_drivers (task_1.py:117-132)
Main1Start ==
    /\ pc_1 = "start"
    /\ \E arg \in IgnoreArgs1 :
          /\ ignore_file_1' = <<arg>>
          /\ ignore_dirs_1' = main_ignore_dirs_1(arg)
    /\ pc_1' = "request"
    /\ site' = "contents"
    /\ UNCHANGED <<listing_answer, contents, item, driver_version, drivers, skipped, stdout_1, exit_1,
                   now, sleep_for, last_403, waited>>
    /\ UNCHANGED <<xvars, pvars, bvars>>

InList(x, list) == \E k \in 1..Len(list) : list[k] = x

\* mutant of NextDir: the type of the item is not looked at
RECURSIVE NextDir_any_type(_, _, _)
NextDir_any_type(list, from, ignore_dirs) ==
    IF from > Len(list) THEN 0
    ELSE IF ~InList(list[from].name, ignore_dirs) THEN from
    ELSE NextDir_any_type(list, from + 1, ignore_dirs)

\* index of the first item at or after from that get_drivers processes, 0 if none
RECURSIVE NextDir(_, _, _)
NextDir(list, from, ignore_dirs) ==
    IF from > Len(list) THEN 0
    ELSE IF list[from].type = "dir" /\ ~InList(list[from].name, ignore_dirs) THEN from
    ELSE NextDir(list, from + 1, ignore_dirs)

DriverLines(ds) ==
    [k \in 1..Len(ds) |-> [name |-> ds[k].name, version |-> ds[k].version,
                           latest_git_hash |-> ds[k].latest_git_hash]]

\* get_drivers returns ds; main prints the lines and the process ends
Finish1(ds) ==
    /\ stdout_1' = DriverLines(ds)
    /\ pc_1' = "done"
    /\ exit_1' = 0

\* an exception nothing catches
Crash1 ==
    /\ pc_1' = "crashed"
    /\ exit_1' = 1
    /\ UNCHANGED stdout_1

\* the loop of get_drivers moves to the next directory or ends
Advance1(list, from, ds) ==
    LET k == NextDir(list, from, ignore_dirs_1)
    IN  IF k = 0
        THEN Finish1(ds) /\ UNCHANGED <<item, site>>
        ELSE /\ item' = k
             /\ site' = "changelog"
             /\ pc_1' = "request"
             /\ UNCHANGED <<stdout_1, exit_1>>

ContentsAnswers ==
    {Answer1(200, "list", ContentsListing), Answer1(200, "list", ContentsListing2),
     Answer1(200, "list", <<>>),
     Answer1(200, "dict", <<>>), Answer1(200, "bad", <<>>),
     Answer1(404, "dict", <<>>), Answer1(500, "text", <<>>)}

\* the listing request of get_drivers (task_1.py:189-199)
RequestContents ==
    /\ pc_1 = "request"
    /\ site = "contents"
    /\ \E ans \in ContentsAnswers \cup Retryable1 :
          /\ Attempt(ans)
          /\ listing_answer' = IF IsRetry(ans) THEN listing_answer
                                ELSE <<[status |-> ans.status, shape |-> ans.shape]>>
          /\ IF IsRetry(ans)
             THEN UNCHANGED <<site, contents, item, stdout_1, exit_1>>
             ELSE IF IsHttpError(ans)
             THEN Finish1(<<>>) /\ UNCHANGED <<site, contents, item>>
             ELSE IF ans.shape = "bad"
             THEN Crash1 /\ UNCHANGED <<site, contents, item>>
             ELSE IF ans.shape # "list"
             THEN Finish1(<<>>) /\ UNCHANGED <<site, contents, item>>
             ELSE /\ contents' = ans.body
                  /\ Advance1(ans.body, 1, drivers)
    /\ UNCHANGED <<ignore_file_1, ignore_dirs_1, driver_version, drivers, skipped>>
    /\ UNCHANGED <<xvars, repo, tasks, bvars>>

DownloadUrl == "download_url"

ChangelogAnswers1 ==
    {Answer1(200, "dict", <<DownloadUrl>>), Answer1(404, "dict", <<>>),
     Answer1(200, "list", <<>>), Answer1(500, "bad", <<>>)}

\* the first request of get_changelog (task_1.py:246-260); its status is not
\* looked at; a body that is no JSON makes response.json() raise, which the
\* handler catches by version of the requests library
RequestChangelog ==
    /\ pc_1 = "request"
    /\ site = "changelog"
    /\ \E ans \in ChangelogAnswers1 \cup Retryable1 :
          /\ Attempt(ans)
          /\ IF IsRetry(ans)
             THEN UNCHANGED <<site, driver_version, stdout_1, exit_1>>
             ELSE IF ans.shape = "bad"
             THEN \/ Crash1 /\ UNCHANGED <<site, driver_version>>
                  \/ /\ driver_version' = Unknown
                     /\ site' = "commits"
                     /\ UNCHANGED <<pc_1, stdout_1, exit_1>>
             ELSE IF ans.shape = "dict" /\ ans.body # <<>>
             THEN /\ site' = "download"
                  /\ UNCHANGED <<pc_1, driver_version, stdout_1, exit_1>>
             ELSE /\ driver_version' = Unknown
                  /\ site' = "commits"
                  /\ UNCHANGED <<pc_1, stdout_1, exit_1>>
    /\ UNCHANGED <<ignore_file_1, ignore_dirs_1, listing_answer, contents, item, drivers, skipped>>
    /\ UNCHANGED <<xvars, repo, tasks, bvars>>

DownloadAnswers ==
    {Answer1(200, "text", T_ok), Answer1(200, "text", T_bad), Answer1(200, "text", T_empty),
     Answer1(404, "text", T_bad)}

\* the download of get_changelog and the version get_drivers takes from it
\* (task_1.py:253-254, 205-206)
RequestDownload ==
    /\ pc_1 = "request"
    /\ site = "download"
    /\ \E ans \in DownloadAnswers \cup Retryable1 :
          /\ Attempt(ans)
          /\ IF IsRetry(ans)
             THEN UNCHANGED <<site, driver_version>>
             ELSE /\ driver_version' = IF ans.body # <<>> THEN extract_version_1(ans.body)
                                       ELSE Unknown
                  /\ site' = "commits"
                  /\ UNCHANGED pc_1
    /\ UNCHANGED <<ignore_file_1, ignore_dirs_1, listing_answer, contents, item, drivers, skipped, stdout_1, exit_1>>
    /\ UNCHANGED <<xvars, repo, tasks, bvars>>

CommitSha == <<"a", "b", "c", "d", "e", "f", "0", "1", "2">>
CommitDate == <<"2", "0", "2", "4", "-", "0", "5", "-", "1", "7", "T",
                "0", "9", ":", "3", "0", ":", "0", "0", "Z">>
BadCommitDate == <<"2", "0", "2", "4", "-", "0", "5", "-", "1", "7">>

Digits == {"0", "1", "2", "3", "4", "5", "6", "7", "8", "9"}

\* datetime.strptime(date, "%Y-%m-%dT%H:%M:%SZ") succeeds
strptime_ok(date) ==
    /\ Len(date) = 20
    /\ \A k \in 1..20 :
          IF k \in {5, 8} THEN date[k] = "-"
          ELSE IF k = 11 THEN date[k] = "T"
          ELSE IF k \in {14, 17} THEN date[k] = ":"
          ELSE IF k = 20 THEN date[k] = "Z"
          ELSE date[k] \in Digits

\* commit_date.strftime("%Y%m%d")
strftime_ymd(date) == SubSeq(date, 1, 4) \o SubSeq(date, 6, 7) \o SubSeq(date, 9, 10)

git_info_of(commit) ==
    <<"g", "i", "t">> \o strftime_ymd(commit.date) \o <<".">> \o Prefix(commit.sha, 7)

CommitAnswers1 ==
    {Answer1(200, "list", <<[sha |-> CommitSha, date |-> CommitDate]>>),
     Answer1(200, "list", <<[sha |-> CommitSha, date |-> BadCommitDate]>>),
     Answer1(200, "list", <<>>), Answer1(200, "bad", <<>>),
     Answer1(404, "dict", <<>>), Answer1(500, "text", <<>>)}

\* the commit listing of get_drivers, the record it appends and the step of
\* the loop to the next directory or to the end of main (task_1.py:208-233,
\* 133-136)
RequestCommits ==
    /\ pc_1 = "request"
    /\ site = "commits"
    /\ \E ans \in CommitAnswers1 \cup Retryable1 :
          /\ Attempt(ans)
          /\ LET name == contents[item].name
                 Appended(git_info) ==
                     Append(drivers, [name |-> name, version |-> driver_version,
                                      latest_git_hash |-> git_info])
             IN  IF IsRetry(ans)
                 THEN UNCHANGED <<site, item, drivers, skipped, stdout_1, exit_1>>
                 ELSE IF IsHttpError(ans)
                 THEN \* except requests.RequestException: logged, nothing appended
                      /\ skipped' = skipped \cup {name}
                      /\ Advance1(contents, item + 1, drivers)
                      /\ UNCHANGED drivers
                 ELSE IF ans.shape = "bad"
                 THEN Crash1 /\ UNCHANGED <<site, item, drivers, skipped>>
                 ELSE IF ans.body = <<>>
                 THEN /\ drivers' = Appended(Unknown)
                      /\ Advance1(contents, item + 1, Appended(Unknown))
                      /\ UNCHANGED skipped
                 ELSE IF ~strptime_ok(ans.body[1].date)
                 THEN Crash1 /\ UNCHANGED <<site, item, drivers, skipped>>
                 ELSE /\ drivers' = Appended(git_info_of(ans.body[1]))
                      /\ Advance1(contents, item + 1, Appended(git_info_of(ans.body[1])))
                      /\ UNCHANGED skipped
    /\ UNCHANGED <<ignore_file_1, ignore_dirs_1, listing_answer, contents, driver_version>>
    /\ UNCHANGED <<xvars, repo, tasks, bvars>>

MaxStalls == 2

AInit ==
    /\ XIdle
    /\ BIdle
    /\ repo = <<>>
    /\ tasks = <<>>
    /\ env_faults = MaxStalls
    /\ pc_1 = "start"
    /\ site = "none"
    /\ ignore_file_1 = <<>>
    /\ ignore_dirs_1 = <<>>
    /\ listing_answer = <<>>
    /\ contents = <<>>
    /\ item = 0
    /\ driver_version = <<>>
    /\ drivers = <<>>
    /\ skipped = {}
    /\ stdout_1 = <<>>
    /\ exit_1 = -1
    /\ now \in {Epoch0, Epoch0 + 1}
    /\ sleep_for = 0
    /\ last_403 = <<>>
    /\ waited = <<>>

ANext ==
    \/ Main1Start
    \/ RequestContents
    \/ RequestChangelog
    \/ RequestDownload
    \/ RequestCommits
    \/ Sleep1

SpecA == AInit /\ [][ANext]_vars

\* ---------------------------------------------------------------------------
\* Either script is run
\* ---------------------------------------------------------------------------
MainInit == AInit \/ BInit

MainNext == ANext \/ BNext

SpecMain == MainInit /\ [][MainNext]_vars

\* ---------------------------------------------------------------------------
\* The filters of the two enumerators, applied to every listing and ignore list
\* ---------------------------------------------------------------------------
MaxListLen == 3
MaxIgnoreLen == 2

ListingEntries ==
    {[name |-> IndiA, type |-> "dir"], [name |-> IndiAsu, type |-> "dir"],
     [name |-> LibB, type |-> "dir"], [name |-> LibB, type |-> "file"],
     [name |-> Astro, type |-> "dir"]}

IgnoreEntries == {IndiA, LibB, Astro, <<>>}

SeqsUpTo(S, n) == UNION {[1..k -> S] : k \in 0..n}

\* names of the items the loop of get_drivers works on, in the order it
\* reaches them (task_1.py:199-201)
RECURSIVE driver_names(_, _, _)
driver_names(list, from, ignore_dirs) ==
    LET k == NextDir(list, from, ignore_dirs)
    IN  IF k = 0 THEN <<>>
        ELSE <<list[k].name>> \o driver_names(list, k + 1, ignore_dirs)

FilterDrivers ==
    /\ result_1 = <<>>
    /\ result_1' = <<driver_names(raw_listing, 1, ignore_set)>>
    /\ UNCHANGED <<raw_listing, ignore_set, result_2, evars, ivars, mvars, pvars, bvars, avars>>

FilterPackages ==
    /\ result_2 = <<>>
    /\ result_2' = <<Names(SelectProjects(raw_listing, ignore_set))>>
    /\ UNCHANGED <<raw_listing, ignore_set, result_1, evars, ivars, mvars, pvars, bvars, avars>>

FInit ==
    /\ raw_listing \in SeqsUpTo(ListingEntries, MaxListLen)
    /\ ignore_set \in SeqsUpTo(IgnoreEntries, MaxIgnoreLen)
    /\ result_1 = <<>>
    /\ result_2 = <<>>
    /\ EIdle
    /\ IIdle
    /\ MIdle
    /\ PIdle
    /\ BIdle
    /\ AIdle

FNext == FilterDrivers \/ FilterPackages

SpecFilter == FInit /\ [][FNext]_vars

\* ---------------------------------------------------------------------------
\* check_modules, run when either script is loaded
\* ---------------------------------------------------------------------------
BuiltIn == "built-in"

required_modules_1 ==
    <<[module |-> "requests", package |-> "python3-requests"],
      [module |-> "json", package |-> BuiltIn],
      [module |-> "time", package |-> BuiltIn],
      [module |-> "re", package |-> BuiltIn],
      [module |-> "datetime", package |-> BuiltIn]>>

required_modules_2 ==
    <<[module |-> "aiohttp", package |-> "python3-aiohttp"],
      [module |-> "asyncio", package |-> BuiltIn],
      [module |-> "json", package |-> BuiltIn],
      [module |-> "re", package |-> BuiltIn]>>

ModuleNames ==
    {required_modules_1[k].module : k \in DOMAIN required_modules_1}
    \cup {required_modules_2[k].module : k \in DOMAIN required_modules_2}

\* mutant of check_modules: only the first missing module is written
check_modules_first_only(required_modules, can_import) ==
    LET Missing(e) == e.module \notin can_import
        missing_modules == SelectSeq(required_modules, Missing)
    IN  IF missing_modules # <<>>
        THEN [stderr |-> <<missing_modules[1].module>>, exit |-> <<1>>]
        ELSE [stderr |-> <<>>, exit |-> <<>>]

\* check_modules: the module names of the lines written to the error stream,
\* and the exit status (<<>> when the function returns)
check_modules(required_modules, can_import) ==
    LET Missing(e) == e.module \notin can_import
        missing_modules == SelectSeq(required_modules, Missing)
    IN  IF missing_modules # <<>>
        THEN [stderr |-> [k \in 1..Len(missing_modules) |-> missing_modules[k].module],
              exit |-> <<1>>]
        ELSE [stderr |-> <<>>, exit |-> <<>>]

CheckModules1 ==
    /\ checked_1 = <<>>
    /\ checked_1' = <<check_modules(required_modules_1, importable)>>
    /\ UNCHANGED <<importable, checked_2, evars, ivars, fvars, pvars, bvars, avars>>

CheckModules2 ==
    /\ checked_2 = <<>>
    /\ checked_2' = <<check_modules(required_modules_2, importable)>>
    /\ UNCHANGED <<importable, checked_1, evars, ivars, fvars, pvars, bvars, avars>>

MInit ==
    /\ importable \in SUBSET ModuleNames
    /\ checked_1 = <<>>
    /\ checked_2 = <<>>
    /\ EIdle
    /\ IIdle
    /\ FIdle
    /\ PIdle
    /\ BIdle
    /\ AIdle

MNext == CheckModules1 \/ CheckModules2

SpecModules == MInit /\ [][MNext]_vars

\* ---------------------------------------------------------------------------
\* parse_ignore_file of the two hosts, applied to every readable file
\* ---------------------------------------------------------------------------
MaxIgnoreTextLen == 5

IgnoreChars == {"a", ",", " ", "#", NL}

ParseIgnoreFile1 ==
    /\ ignore_list_1 = <<>>
    /\ ignore_list_1' = <<parse_ignore_file_1(ignore_text)>>
    /\ UNCHANGED <<ignore_text, ignore_list_2, evars, fvars, mvars, pvars, bvars, avars>>

ParseIgnoreFile2 ==
    /\ ignore_list_2 = <<>>
    /\ ignore_list_2' = <<parse_ignore_file_2(ignore_text)>>
    /\ UNCHANGED <<ignore_text, ignore_list_1, evars, fvars, mvars, pvars, bvars, avars>>

IInit ==
    /\ ignore_text \in SeqsUpTo(IgnoreChars, MaxIgnoreTextLen)
    /\ ignore_list_1 = <<>>
    /\ ignore_list_2 = <<>>
    /\ EIdle
    /\ FIdle
    /\ MIdle
    /\ PIdle
    /\ BIdle
    /\ AIdle

INext == ParseIgnoreFile1 \/ ParseIgnoreFile2

SpecIgnore == IInit /\ [][INext]_vars

\* ---------------------------------------------------------------------------
\* Text predicates the claims are stated with
\* ---------------------------------------------------------------------------
\* positions of a parenthesized substring of line: "(" at i, ")" at j > i
HasParen(line) ==
    \E i, j \in 1..Len(line) : i < j /\ line[i] = "(" /\ line[j] = ")"

\* interior of the parenthesized substring starting at the first "(" and
\* ending at the first ")" after it
IsInterior(line, v) ==
    \E i, j \in 1..Len(line) :
        /\ i < j /\ line[i] = "(" /\ line[j] = ")"
        /\ \A k \in 1..(i - 1) : line[k] # "("
        /\ \A k \in (i + 1)..(j - 1) : line[k] # ")"
        /\ v = SubSeq(line, i + 1, j - 1)

\* the text up to (not including) the first newline
FirstLine(s) ==
    LET nls == {k \in 1..Len(s) : s[k] = NL}
    IN  IF nls = {} THEN s
        ELSE SubSeq(s, 1, (CHOOSE k \in nls : \A m \in nls : k <= m) - 1)

\* the first line that has at least one character, <<>> if there is none
FirstNonEmptyLine(s) ==
    LET starts == {k \in 1..Len(s) : s[k] # NL /\ (k = 1 \/ s[k - 1] = NL)}
    IN  IF starts = {} THEN <<>>
        ELSE LET b == CHOOSE k \in starts : \A m \in starts : k <= m
             IN  FirstLine(SubSeq(s, b, Len(s)))

\* ---------------------------------------------------------------------------
\* C1
\* ---------------------------------------------------------------------------
NCands == 3 * Len(changelog_paths)

\* the k-th candidate of task T in the claimed order: branches outer, paths inner
CandBranch(T, k) == T.branches[((k - 1) \div Len(changelog_paths)) + 1]
CandPath(k) == changelog_paths[((k - 1) % Len(changelog_paths)) + 1]

Hits(T) == {k \in 1..Len(T.cl_log) : T.cl_log[k].ok}

\* C1: the requests of get_changelog are a prefix of the candidates in the
\* order ['debian/main', default, 'master'] x paths; nothing is fetched after a
\* candidate answered 200; the call returns the text and branch of that first
\* successful candidate, and (None, None) after all twelve candidates failed.
C1_FirstSuccessInOrder ==
    \A t \in DOMAIN tasks :
        LET T == tasks[t]
            log == T.cl_log
        IN  /\ Len(log) <= NCands
            /\ \A k \in 1..Len(log) :
                  /\ log[k].branch = CandBranch(T, k)
                  /\ log[k].path = CandPath(k)
                  /\ k < Len(log) => ~log[k].ok
            /\ T.outcome = "info" =>
                  IF Hits(T) # {}
                  THEN /\ T.changelog = <<log[Len(log)].text>>
                       /\ T.found_branch = <<log[Len(log)].branch>>
                  ELSE /\ Len(log) = NCands
                       /\ T.changelog = <<>>
                       /\ T.found_branch = <<>>

\* all eleven earlier candidates failed, the last one succeeded and is returned
C1_Witness ==
    \E t \in DOMAIN tasks :
        /\ tasks[t].outcome = "info"
        /\ Len(tasks[t].cl_log) = NCands
        /\ tasks[t].branches = <<"debian/main", "main", "master">>
        /\ tasks[t].changelog = <<T_ok>>
        /\ tasks[t].found_branch = <<"master">>
        /\ tasks[t].cl_log[NCands].path = "orig/debian/changelog"

\* ---------------------------------------------------------------------------
\* C2
\* ---------------------------------------------------------------------------
\* the first line of the text matches the version pattern
Parseable(text) == HasParen(FirstLine(text))

ConfiguredCands(T) ==
    {<<T.branches[b], changelog_paths[p]>> : b \in 1..3, p \in 1..Len(changelog_paths)}

YieldedCommit(T) == \E k \in 1..Len(T.commit_log) : T.commit_log[k].yielded

\* C3 (as claimed): git_hash is "Unknown" exactly when no branch of the
\* priority list yielded a commit.
C3_UnknownIffNoCommit ==
    \A t \in DOMAIN tasks :
        tasks[t].outcome = "info" =>
            (tasks[t].ret[1].git_hash = Unknown <=> ~YieldedCommit(tasks[t]))

\* C3 (as amended): git_hash is "Unknown" exactly when no branch of the
\* priority list yielded a commit or the listed project has no
\* last_activity_at.
C3_UnknownIffNoCommitOrNoDate ==
    \A t \in DOMAIN tasks :
        tasks[t].outcome = "info" =>
            (tasks[t].ret[1].git_hash = Unknown
                <=> (~YieldedCommit(tasks[t]) \/ tasks[t].project.last_activity_at = <<>>))

\* a commit was found on the second branch, the project has no activity date
C3_Witness ==
    \E t \in DOMAIN tasks :
        /\ tasks[t].outcome = "info"
        /\ tasks[t].project.last_activity_at = <<>>
        /\ Len(tasks[t].commit_log) = 2
        /\ tasks[t].commit_log[2].yielded
        /\ tasks[t].ret[1].git_hash = Unknown

C3_WitnessHash ==
    \E t \in DOMAIN tasks :
        /\ tasks[t].outcome = "info"
        /\ tasks[t].ret[1].git_hash =
              <<"g", "i", "t", "2", "0", "2", "4", "0", "5", "1", "7", ".",
                "0", "1", "2", "3", "4", "5", "6", "7">>

\* ---------------------------------------------------------------------------
\* C4
\* ---------------------------------------------------------------------------
\* the directories of the listing that get_drivers works on
SelectedDirs ==
    {k \in 1..Len(contents) :
        contents[k].type = "dir" /\ ~InList(contents[k].name, ignore_dirs_1)}

Printed1(name) == \E k \in 1..Len(stdout_1) : stdout_1[k].name = name

\* C4: when Host A has printed its result, every directory it worked on has a
\* line, and a directory whose commit listing answered with an error status
\* has a line whose commit field is "Unknown".
C4_FailedCommitListingStillReported ==
    pc_1 = "done" =>
        /\ \A k \in SelectedDirs : Printed1(contents[k].name)
        /\ \A name \in skipped :
              \E k \in 1..Len(stdout_1) :
                  /\ stdout_1[k].name = name
                  /\ stdout_1[k].latest_git_hash = Unknown

\* ---------------------------------------------------------------------------
\* C6
\* ---------------------------------------------------------------------------
\* C6: the request that follows a 403 answer is issued no earlier than the
\* reset epoch of the answer when that epoch lay in the future, and no earlier
\* than RATE_LIMIT_RESET seconds after the answer when the header was absent
\* or not in the future; rate_limited_get returns only from such a request.
C6_WaitsForReset ==
    waited # <<>> =>
        IF waited[1].reset * TicksPerSec > waited[1].at
        THEN waited[1].next >= waited[1].reset * TicksPerSec
        ELSE waited[1].next >= waited[1].at + RATE_LIMIT_RESET * TicksPerSec

\* a request issued after a 403 whose reset epoch was five seconds ahead
C6_Witness ==
    /\ waited # <<>>
    /\ waited[1].reset = int_time(waited[1].at) + 5
    /\ waited[1].next >= waited[1].reset * TicksPerSec
    /\ pc_1 = "done"

\* ---------------------------------------------------------------------------
\* C5
\* ---------------------------------------------------------------------------
\* C5: between two pages, and at the end, the result holds exactly one record
\* for every project listed so far that passes the prefix and ignore filter,
\* whatever happened inside the tasks.
C5_OneRecordPerSelectedProject ==
    pc_2 \in {"list", "done"} =>
        Names(packages) = Names(SelectProjects(SubSeq(ServerProjects, 1, cursor), ignore_dirs_2))

\* ---------------------------------------------------------------------------
\* C7
\* ---------------------------------------------------------------------------
ExpectedWaits == <<1, 2, 4, 8, 16>>

\* C7: get_astro_team_id issues at most 5 requests, numbered 0..4; a request is
\* issued only after every earlier one was answered 429 and its wait of 2^k
\* seconds was taken; after five 429 answers main exits with status 1 and no
\* project listing was ever requested.
C7_BoundedRetriesWithBackoff ==
    /\ Len(team_log) <= 5
    /\ \A k \in 1..Len(team_log) : team_log[k].attempt = k - 1
    /\ Len(sleeps) <= Len(team_log)
    /\ Len(team_log) <= Len(sleeps) + 1
    /\ \A k \in 1..Len(sleeps) :
          /\ team_log[k].status = 429
          /\ sleeps[k] = ExpectedWaits[k]
    /\ pc_2 = "team_sleep" <=> Len(team_log) = Len(sleeps) + 1 /\ team_log[Len(team_log)].status = 429
    /\ Len(sleeps) = 5 => pc_2 = "exited" /\ exit_2 = 1 /\ group_id = <<>> /\ list_log = <<>>
    /\ list_log # <<>> => group_id # <<>>

C7_Witness ==
    /\ Len(team_log) = 5
    /\ sleeps = <<1, 2, 4, 8, 16>>
    /\ pc_2 = "exited"
    /\ exit_2 = 1
    /\ list_log = <<>>

\* ---------------------------------------------------------------------------
\* C8
\* ---------------------------------------------------------------------------
Last(log) == log[Len(log)]

RequestsOfPage(n) == Cardinality({k \in 1..Len(list_log) : list_log[k].page = n})

\* C8: a call answered 429 fails, and ends the run, only after it has been
\* tried `retries` times (stated for the group lookup and the page listing).
C8_RateLimitFailsOnlyAfterRetries ==
    /\ (pc_2 = "exited" /\ list_log = <<>> /\ team_log # <<>> /\ Last(team_log).status = 429)
          => Len(team_log) >= retries
    /\ (pc_2 = "exited" /\ list_log # <<>> /\ Last(list_log).status = 429)
          => RequestsOfPage(Last(list_log).page) >= retries

\* ---------------------------------------------------------------------------
\* C9
\* ---------------------------------------------------------------------------
\* C9: a transport error never ends the run (stated for the group lookup and
\* the page listing of Host B).
C9_TransportErrorNeverEndsRun ==
    /\ (pc_2 = "exited" /\ list_log = <<>> /\ team_log # <<>>) => Last(team_log).kind # "err"
    /\ (pc_2 = "exited" /\ list_log # <<>>) => Last(list_log).kind # "err"

\* ---------------------------------------------------------------------------
\* C10
\* ---------------------------------------------------------------------------
\* C10 (as amended): when the FIRST line of the text contains a parenthesized
\* substring, both extract_version variants return exactly the interior of
\* that substring (first "(" to the next ")"), verbatim.
C10_FirstLineInterior ==
    /\ (version_1 # None /\ HasParen(FirstLine(file_content)))
          => IsInterior(FirstLine(file_content), version_1)
    /\ (version_2 # None /\ HasParen(FirstLine(file_content)))
          => IsInterior(FirstLine(file_content), version_2)

C10_Witness ==
    /\ file_content = <<"a", "(", ".", ")", "a">>
    /\ version_1 = <<".">>
    /\ version_2 = <<".">>

\* C10 (as claimed): the first NON-EMPTY line decides, also when blank lines
\* precede it.
C10_FirstNonEmptyLineInterior ==
    /\ (version_1 # None /\ HasParen(FirstNonEmptyLine(file_content)))
          => IsInterior(FirstNonEmptyLine(file_content), version_1)
    /\ (version_2 # None /\ HasParen(FirstNonEmptyLine(file_content)))
          => IsInterior(FirstNonEmptyLine(file_content), version_2)

\* ---------------------------------------------------------------------------
\* C11
\* ---------------------------------------------------------------------------
\* C11: for a text that is empty, or whose first line holds no "(" with a ")"
\* after it, both extract_version variants return "Unknown", whatever the
\* later lines hold.
C11_NoParenOnFirstLineIsUnknown ==
    (file_content = <<>> \/ ~HasParen(FirstLine(file_content))) =>
        /\ (version_1 # None => version_1 = Unknown)
        /\ (version_2 # None => version_2 = Unknown)

\* a second line with a parenthesized substring after a first line without one
C11_Witness ==
    /\ file_content = <<"a", NL, "(", ".", ")">>
    /\ version_1 = Unknown
    /\ version_2 = Unknown

\* ---------------------------------------------------------------------------
\* C12
\* ---------------------------------------------------------------------------
\* C12: whatever the listing and the ignore list, and wherever a name stands in
\* either, no name the enumerators of the two hosts go on with is a member of
\* the ignore list.
C12_IgnoredNamesNeverSelected ==
    /\ result_1 # <<>> =>
          \A k \in 1..Len(result_1[1]) : ~InList(result_1[1][k], ignore_set)
    /\ result_2 # <<>> =>
          \A k \in 1..Len(result_2[1]) : ~InList(result_2[1][k], ignore_set)

\* the ignored names stand last in the listing and in reverse order in the
\* ignore list; each host keeps its own survivors
C12_Witness ==
    /\ raw_listing = <<[name |-> IndiAsu, type |-> "dir"], [name |-> LibB, type |-> "dir"],
                       [name |-> Astro, type |-> "dir"]>>
    /\ ignore_set = <<Astro, LibB>>
    /\ result_1 = <<<<IndiAsu>>>>
    /\ result_2 = <<<<IndiAsu>>>>

\* ---------------------------------------------------------------------------
\* C13
\* ---------------------------------------------------------------------------
\* the entries of kind "dir" whose name is not in the ignore list, in listing order
RECURSIVE DirsNotIgnored(_, _)
DirsNotIgnored(list, ignore_dirs) ==
    IF list = <<>> THEN <<>>
    ELSE (IF list[1].type = "dir" /\ ~InList(list[1].name, ignore_dirs)
          THEN <<list[1].name>> ELSE <<>>)
            \o DirsNotIgnored(Tail(list), ignore_dirs)

\* C13: when get_drivers has returned and no request of a driver was answered
\* with an error status, its result holds exactly one record for each "dir"
\* entry of the listing whose name is not ignored, no other record, and the
\* records stand in listing order.
C13_OneRecordPerDirInListingOrder ==
    (pc_1 = "done" /\ skipped = {}) =>
        Names(drivers) = DirsNotIgnored(contents, ignore_dirs_1)

\* three directories, "debian" ignored by the default list: two records, in
\* the order of the listing (indi-y before indi-x)
C13_Witness ==
    /\ pc_1 = "done"
    /\ skipped = {}
    /\ contents = ContentsListing2
    /\ ignore_dirs_1 = default_ignore_dirs_1
    /\ Names(drivers) = <<IndiY, IndiX>>
    /\ Names(stdout_1) = <<IndiY, IndiX>>

\* ---------------------------------------------------------------------------
\* C14
\* ---------------------------------------------------------------------------
SortedByName(lines) ==
    \A k \in 1..(Len(lines) - 1) : ~str_less(lines[k + 1].name, lines[k].name)

\* what the server's projects give when every task request is answered honestly
ExpectedLines(ignore_dirs) ==
    LET chosen == SelectProjects(ServerProjects, ignore_dirs)
    IN  [k \in 1..Len(chosen) |->
            [name |-> chosen[k].name,
             version |-> IF chosen[k].name = IndiA THEN <<".">> ELSE Unknown]]

\* C14: the printed package lines are sorted ascending by name, and with the
\* same answers of the server they are the same lines whatever the order in
\* which the tasks of a batch take their steps and however the projects are
\* split into pages; a step of a task changes nothing of get_indi_packages or
\* main, its result reaching them only when the batch is gathered.
C14_SortedSameForEveryInterleaving ==
    /\ [](pc_2 = "done" =>
            /\ SortedByName(stdout_2)
            /\ env_faults = MaxFaults => stdout_2 = ExpectedLines(ignore_dirs_2))
    /\ [][tasks' # tasks /\ pc_2 = "gather" => UNCHANGED bvars]_vars

\* three packages printed, listed on more than one page
C14_Witness ==
    /\ pc_2 = "done"
    /\ env_faults = MaxFaults
    /\ Names(stdout_2) = <<IndiA, IndiAsu, LibB>>
    /\ Len(list_log) >= 3

\* ---------------------------------------------------------------------------
\* C15
\* ---------------------------------------------------------------------------
\* C15: when the listing request of Host A was answered with an error status,
\* or with a body that is not a JSON list, the process ends with status 1.
C15_FailedListingExitsOne ==
    (/\ listing_answer # <<>>
     /\ IsHttpError(listing_answer[1]) \/ listing_answer[1].shape # "list"
     /\ exit_1 # -1)
        => exit_1 = 1

\* ---------------------------------------------------------------------------
\* C16
\* ---------------------------------------------------------------------------
MissingOf(required_modules) ==
    {required_modules[k].module : k \in DOMAIN required_modules} \ importable

Written(outcome) == {outcome.stderr[k] : k \in DOMAIN outcome.stderr}

\* C16: when a required module does not import, check_modules has written the
\* name of every missing module to the error stream and exits with status 1;
\* when all import, it writes nothing and returns.
C16_MissingModulesReportedThenExitOne ==
    /\ checked_1 # <<>> =>
          IF MissingOf(required_modules_1) # {}
          THEN /\ Written(checked_1[1]) = MissingOf(required_modules_1)
               /\ checked_1[1].exit = <<1>>
          ELSE checked_1[1] = [stderr |-> <<>>, exit |-> <<>>]
    /\ checked_2 # <<>> =>
          IF MissingOf(required_modules_2) # {}
          THEN /\ Written(checked_2[1]) = MissingOf(required_modules_2)
               /\ checked_2[1].exit = <<1>>
          ELSE checked_2[1] = [stderr |-> <<>>, exit |-> <<>>]

\* nothing imports, as in the test of tests.py: all five names, status 1
C16_Witness ==
    /\ importable = {}
    /\ checked_1 # <<>>
    /\ checked_1[1].stderr = <<"requests", "json", "time", "re", "datetime">>
    /\ checked_1[1].exit = <<1>>

\* ---------------------------------------------------------------------------
\* C17
\* ---------------------------------------------------------------------------
\* the non-empty tokens of a text: maximal runs of characters that are neither
\* comma nor whitespace, taken from the part of each line before its first "#"
RECURSIVE TokensFrom(_, _, _)
TokensFrom(s, token, in_comment) ==
    LET flushed == IF token # <<>> THEN <<token>> ELSE <<>>
    IN  IF s = <<>> THEN flushed
        ELSE IF s[1] = NL THEN flushed \o TokensFrom(Tail(s), <<>>, FALSE)
        ELSE IF in_comment THEN TokensFrom(Tail(s), <<>>, TRUE)
        ELSE IF s[1] = "#" THEN flushed \o TokensFrom(Tail(s), <<>>, TRUE)
        ELSE IF s[1] \in {",", " "} THEN flushed \o TokensFrom(Tail(s), <<>>, FALSE)
        ELSE TokensFrom(Tail(s), Append(token, s[1]), FALSE)

\* C17: on both hosts the list parse_ignore_file returns is exactly the
\* non-empty tokens of the file, in order; it never holds the empty string.
C17_ExactlyTheNonEmptyTokens ==
    /\ ignore_list_1 # <<>> => ignore_list_1[1] = TokensFrom(ignore_text, <<>>, FALSE)
    /\ ignore_list_2 # <<>> => ignore_list_2[1] = TokensFrom(ignore_text, <<>>, FALSE)

\* ---------------------------------------------------------------------------
\* C18
\* ---------------------------------------------------------------------------
Unreadable(file) == file # <<>> /\ file[1].given /\ ~file[1].readable

EmptyFile(file) ==
    file # <<>> /\ file[1].given /\ file[1].readable /\ file[1].content = <<>>

C19_RetriesWithoutCeiling ==
    /\ [](exit_1 # -1 => listing_answer # <<>>)
    /\ [][pc_1 = "request" /\ env_faults' # env_faults =>
              /\ pc_1' = "sleep"
              /\ sleep_for' >= 1
              /\ UNCHANGED <<site, item, contents, drivers, skipped, stdout_1, exit_1>>]_vars
    /\ [][pc_1 = "sleep" =>
              /\ pc_1' = "request"
              /\ now' >= now + TicksPerSec
              /\ UNCHANGED site]_vars
    /\ [][pc_1 = "request" /\ pc_1' # "sleep" =>
              /\ last_403' = <<>>
              /\ env_faults' = env_faults]_vars

\* every failure the environment may inject was spent on the listing request,
\* and the request is about to be issued once more
C19_Witness ==
    /\ pc_1 = "request"
    /\ site = "contents"
    /\ env_faults = 0
    /\ listing_answer = <<>>
    /\ now >= Epoch0 + MaxStalls * TicksPerSec

\* ---------------------------------------------------------------------------
\* C20
\* ---------------------------------------------------------------------------
\* C20: the listing requests ask for the pages 1, 2, 3, ... in this order; a
\* listing request is issued only when every task launched so far has
\* returned; the request answered with the empty page starts no task and is
\* the last one.
C20_NextPageOnlyAfterBatch ==
    /\ [](\A k \in 1..Len(list_log) : list_log[k].page = k)
    /\ [][list_log' # list_log =>
              \A t \in DOMAIN tasks : tasks[t].pc = "done"]_vars
    /\ [][pc_2' = "done" /\ pc_2 # "done" =>
              /\ tasks' = tasks
              /\ list_log' # list_log]_vars
    /\ [][pc_2 = "done" => list_log' = list_log]_vars

\* four projects listed one per page, three tasks run, the fifth page empty
C20_Witness ==
    /\ pc_2 = "done"
    /\ Len(list_log) = 5
    /\ DOMAIN tasks = {1, 2, 3}
    /\ \A t \in DOMAIN tasks : tasks[t].pc = "done"

\* ---------------------------------------------------------------------------
\* C21
\* ---------------------------------------------------------------------------
\* C21: the text get_changelog returns as the changelog is never empty: a
\* candidate answered 200 with an empty body is passed over.
C21_EmptyBodyNotAccepted ==
    \A t \in DOMAIN tasks :
        (tasks[t].outcome = "info" /\ tasks[t].changelog # <<>>)
            => tasks[t].changelog[1] # <<>>

\* ---------------------------------------------------------------------------
\* C22
\* ---------------------------------------------------------------------------
\* C22: an error in the answer to one driver's commit listing (a body that is
\* no JSON, a commit date that does not parse) never ends the run of Host A:
\* the driver is skipped and the loop goes on.
C22_CommitParseErrorNeverEndsRun ==
    ~(pc_1 = "crashed" /\ site = "commits")

\* ---------------------------------------------------------------------------
\* C23
\* ---------------------------------------------------------------------------
\* C23: for every text the extract_version of Host A and the extract_version
\* of Host B return the same result.
C23_SameVersionOnBothHosts ==
    (version_1 # None /\ version_2 # None) => version_1 = version_2

\* a text of two lines, only the first with a parenthesized substring
C23_Witness ==
    /\ file_content = <<"(", "a", ")", NL, "a">>
    /\ version_1 = <<"a">>
    /\ version_2 = <<"a">>

\* ---------------------------------------------------------------------------
\* C24
\* ---------------------------------------------------------------------------
ListingFailed ==
    \E k \in 1..Len(list_log) :
        ~(list_log[k].kind = "resp" /\ list_log[k].status = 200)

\* the ids of the projects of every page that pass the filter, in page order
AllChosenIds ==
    LET chosen == SelectProjects(ServerProjects, ignore_dirs_2)
    IN  [k \in 1..Len(chosen) |-> chosen[k].id]

\* C24: the enumeration of Host B is all or nothing: when the listing request
\* of a page has failed the process has exited with status 1 and no package
\* line is printed, whatever was collected from earlier pages; package lines
\* are printed only when every page up to the first empty page was listed, and
\* then they are the records of all of these pages.
C24_AllOrNothing ==
    /\ ListingFailed => (pc_2 = "exited" /\ exit_2 = 1 /\ stdout_2 = <<>>)
    /\ pc_2 = "done" =>
          /\ ~ListingFailed
          /\ exit_2 = 0
          /\ cursor = Len(ServerProjects)
          /\ packages = Collected(AllChosenIds)
          /\ stdout_2 = PrintedLines(sort_by_name(packages))
    /\ stdout_2 # <<>> => pc_2 = "done"

\* a later page fails after the records of an earlier page were collected
C24_Witness ==
    /\ ListingFailed
    /\ Len(list_log) >= 2
    /\ packages # <<>>
    /\ exit_2 = 1
    /\ stdout_2 = <<>>

\* ---------------------------------------------------------------------------
\* C25
\* ---------------------------------------------------------------------------
\* the requests a task has issued so far
Requests(T) == T.n_default + Len(T.commit_log) + Len(T.cl_log)

\* the k-th candidate of "for branch in branches: for path in paths"
CandidateBranch(T, k) == T.branches[((k - 1) \div Len(changelog_paths)) + 1]

CandidatePath(k) == changelog_paths[((k - 1) % Len(changelog_paths)) + 1]

\* the branch a repository reports as its default, "master" when it has no
\* such key
ReportedDefault(r) ==
    IF \E b \in BranchNames : Resp(200, <<b>>) \in r.defaults
    THEN CHOOSE b \in BranchNames : Resp(200, <<b>>) \in r.defaults
    ELSE "master"

====
